---------------------------- MODULE Spec2Model ----------------------------
(***************************************************************************)
(* SyncAV (src/src/main.ts, lines 1-409): one controller that keeps a      *)
(* primary (video) and a secondary (audio) media element in step through a *)
(* single "reconcile" loop.                                                *)
(*                                                                         *)
(* JavaScript runs every handler to completion, so each action below is    *)
(* one whole task: a public call of the caller, the delivery of one        *)
(* notification of a media element, or the resumption of a reconcile loop  *)
(* after its asyncTimeout(50).  The handlers are written as operators on   *)
(* a record s of the controller's fields; the action commits the record    *)
(* the handler returns.  Event subscribers run synchronously inside        *)
(* callEventListeners and may call the public methods: s.script lists the  *)
(* calls the subscribers make at the successive dispatches of the task.    *)
(***************************************************************************)
EXTENDS Integers, Sequences, FiniteSets, TLC

VARIABLES
  userPaused,               \* SyncAV._userPaused
  userSeeking,              \* SyncAV.userSeeking
  reconciliationState,      \* SyncAV._reconciliationState
  expectingPrimaryPause,    \* SyncAV.expectingPrimaryPause
  expectingSecondaryPause,  \* SyncAV.expectingSecondaryPause
  primary,                  \* the <video> element: src, paused, ended, readyState, currentTime
  secondary,                \* the <audio> element, same fields
  loops,                    \* the reconcile loops suspended in asyncTimeout(50): their attempts counters
  pending,                  \* notifications the elements have queued and not yet delivered
  eventListeners,           \* SyncAV.eventListeners, the Set of "playbackchange": the registrations in it, in insertion order
  registered,               \* the once() registrations made so far: handler, and history (invocations, cancelled before a delivery)
  awaitingCaller,           \* history, kept in phase "watch": a pass hit the attempt cap and nobody has asked to play or seek since
  phase                     \* the scenario: "free", "watch", or the caller's place in a scripted one

vars == <<userPaused, userSeeking, reconciliationState, expectingPrimaryPause,
          expectingSecondaryPause, primary, secondary, loops, pending,
          eventListeners, registered, awaitingCaller, phase>>

(***************************************************************************)
(* Bounds of the model.                                                    *)
(***************************************************************************)
\* const MAX_RECONCILE_ATTEMPTS = 20 * 30 (main.ts:17), scaled down: the loop
\* is the same for any positive cap.
MAX_RECONCILE_ATTEMPTS == 2
\* Iterations a pass has on top of that in the scripted scenarios, where a
\* start-up of several ticks must fit below the cap.
ScenarioHeadroom == 3
\* Reconcile loops suspended at the same time.
MaxLoops == 2
\* Notifications queued at the same time.
MaxPending == 2
\* Calls that subscribers make during the dispatches of one task.
MaxScript == 1
\* once() registrations made in a run.
MaxListeners == 2

(***************************************************************************)
(* Program constants.                                                      *)
(***************************************************************************)
HAVE_METADATA == 1
HAVE_FUTURE_DATA == 3
\* Positions are in hundredths of a second: 0.05 s.
DriftTolerance == 5

ReadyStates == {0, HAVE_METADATA, HAVE_FUTURE_DATA}
TimeValues == {0, DriftTolerance, DriftTolerance + 1}
Resources == {"primary", "secondary"}
\* The calls the subscribers of the model make (a seek at position 0 adds no
\* state to these).
SubscriberOps == {"none", "play", "pause"}

RECURSIVE SeqsUpTo(_, _)
SeqsUpTo(S, n) ==
  IF n = 0 THEN {<<>>}
  ELSE LET shorter == SeqsUpTo(S, n - 1)
       IN shorter \cup {Append(q, x) : q \in shorter, x \in S}

\* The subscribers' behaviours during one task: what they call at the first,
\* second, ... dispatch ("none": that dispatch's subscribers call nothing).
Scripts ==
  {q \in SeqsUpTo(SubscriberOps, MaxScript + 1) :
     /\ Cardinality({i \in 1..Len(q) : q[i] # "none"}) <= MaxScript
     /\ (q # <<>> => q[Len(q)] # "none")}

\* A media element as document.createElement leaves it, and as the load
\* algorithm (src assigned, load(), src cleared) resets it.
EmptyMedia(loaded) ==
  [src |-> loaded, paused |-> TRUE, ended |-> FALSE, readyState |-> 0, currentTime |-> 0]

Notification(r, kind, origin) == [res |-> r, kind |-> kind, origin |-> origin]

\* The controller's fields as one record, with the task's inputs and log.
Cur(script) ==
  [userPaused |-> userPaused, userSeeking |-> userSeeking,
   reconciliationState |-> reconciliationState,
   expectingPrimaryPause |-> expectingPrimaryPause,
   expectingSecondaryPause |-> expectingSecondaryPause,
   primary |-> primary, secondary |-> secondary,
   loops |-> loops, pending |-> pending,
   eventListeners |-> eventListeners, registered |-> registered,
   script |-> script, emitted |-> <<>>, commands |-> {}, calls |-> <<>>]

Media(s, r) == IF r = "primary" THEN s.primary ELSE s.secondary

SetMedia(s, r, m) ==
  IF r = "primary" THEN [s EXCEPT !.primary = m] ELSE [s EXCEPT !.secondary = m]

primaryLoaded(s) == s.primary.src

secondaryLoaded(s) == s.secondary.src

(***************************************************************************)
(* The media elements' side of the commands (HTMLMediaElement): pause()    *)
(* and play() change the paused flag at once and queue the notification,   *)
(* which is delivered later, in any order, or never.                       *)
(***************************************************************************)
mediaPause(s, r, origin) ==
  LET m == Media(s, r)
      s1 == [s EXCEPT !.commands = @ \cup {<<r, "pause", origin>>}]
  IN IF m.paused THEN s1
     ELSE [SetMedia(s1, r, [m EXCEPT !.paused = TRUE])
             EXCEPT !.pending = @ \cup {Notification(r, "pause", origin)}]

mediaPlay(s, r, origin) ==
  LET m == Media(s, r)
      s1 == [s EXCEPT !.commands = @ \cup {<<r, "play", origin>>}]
  IN IF ~m.paused THEN s1
     ELSE [SetMedia(s1, r, [m EXCEPT !.paused = FALSE])
             EXCEPT !.pending = @ \cup {Notification(r, "play", origin)}]

\* elem.currentTime = t: a seek; the element is no longer at its end.
mediaSeek(s, r, t) ==
  [SetMedia(s, r, [Media(s, r) EXCEPT !.currentTime = t, !.ended = FALSE])
     EXCEPT !.commands = @ \cup {<<r, "seek", "engine">>}]

(***************************************************************************)
(* reconcile's local helpers.                                              *)
(***************************************************************************)
pauseExpectedlyAltered(s, pausePrimary, pauseSecondary) ==
  \/ (~s.primary.paused /\ pausePrimary)
  \/ (secondaryLoaded(s) /\ ~s.secondary.paused /\ pauseSecondary)

pauseExpectedly(s, pausePrimary, pauseSecondary) ==
  LET s1 == IF ~s.primary.paused /\ pausePrimary
            THEN mediaPause([s EXCEPT !.expectingPrimaryPause = TRUE], "primary", "engine")
            ELSE s
  IN IF secondaryLoaded(s1) /\ ~s1.secondary.paused /\ pauseSecondary
     THEN mediaPause([s1 EXCEPT !.expectingSecondaryPause = TRUE], "secondary", "engine")
     ELSE s1

Abs(x) == IF x < 0 THEN -x ELSE x

\* Mutant: a drift of exactly the tolerance is corrected too.
syncCurrentTimeNeededAtTolerance(s) ==
  /\ secondaryLoaded(s)
  /\ Abs(s.primary.currentTime - s.secondary.currentTime) >= DriftTolerance

syncCurrentTimeNeeded(s) ==
  /\ secondaryLoaded(s)
  /\ Abs(s.primary.currentTime - s.secondary.currentTime) > DriftTolerance

syncCurrentTime(s) ==
  IF syncCurrentTimeNeeded(s) THEN mediaSeek(s, "secondary", s.primary.currentTime) ELSE s

\* The value of MAX_RECONCILE_ATTEMPTS in force: the scaled-down cap in the
\* free environment, ScenarioHeadroom more in the scripted scenarios.
attemptCap ==
  IF phase \in {"free", "watch", "drift", "once", "events"} THEN MAX_RECONCILE_ATTEMPTS
  ELSE MAX_RECONCILE_ATTEMPTS + ScenarioHeadroom

\* for (; attempts <= MAX_RECONCILE_ATTEMPTS; ...)
loopCondition(attempts) == attempts <= attemptCap

\* Mutant: the cap test never matches the counter the loop condition admits.
capReachedLate(attempts) == attempts > attemptCap

\* if (attempts == MAX_RECONCILE_ATTEMPTS)
capReached(attempts) == attempts = attemptCap

\* q with x added.  The suspended loops differ only in their counters, so they
\* are kept in ascending order.
RECURSIVE Insert(_, _)
Insert(q, x) ==
  IF q = <<>> THEN <<x>>
  ELSE IF x <= Head(q) THEN <<x>> \o q
  ELSE <<Head(q)>> \o Insert(Tail(q), x)

\* continue: attempts++, await asyncTimeout(50)
suspend(s, attempts) == [s EXCEPT !.loops = Insert(@, attempts + 1)]

RECURSIVE callEventListeners(_, _), subscriberCall(_, _), setUserPaused(_, _),
          setReconciliationState(_, _), reconcile(_), reconcileLoop(_, _),
          play(_), pause(_), setCurrentTime(_, _), startUserSeeking(_),
          endUserSeeking(_), forEachListener(_, _)

\* A subscriber's call of a public method from inside its handler.
subscriberCall(s, op) ==
  CASE op = "none" -> s
    [] op = "play" -> play(s)
    [] op = "pause" -> pause(s)
    [] op = "seek" -> setCurrentTime(s, 0)

\* remove of once: the registration i leaves the Set.
remove(s, i) == [s EXCEPT !.eventListeners = SelectSeq(@, LAMBDA j : j # i)]

\* The listener given to once in registration i runs.
listener(s, i) ==
  subscriberCall([s EXCEPT !.registered[i].invoked = @ + 1], s.registered[i].handler)

\* wrapped of once: listener(), then remove().
wrapped(s, i) == remove(listener(s, i), i)

\* Set.forEach: the members in insertion order, each visited once, a member
\* deleted before its turn skipped.
forEachListener(s, visited) ==
  LET rest == SelectSeq(s.eventListeners, LAMBDA i : i \notin visited)
  IN IF rest = <<>> THEN s
     ELSE forEachListener(wrapped(s, Head(rest)), visited \cup {Head(rest)})

callEventListeners(s, type) ==
  LET s0 == [s EXCEPT !.emitted = Append(@, [type |-> type, paused |-> s.userPaused,
                                             state |-> s.reconciliationState])]
      s1 == IF type = "playbackchange" THEN forEachListener(s0, {}) ELSE s0
  IN IF s1.script = <<>> THEN s1
     ELSE subscriberCall([s1 EXCEPT !.script = Tail(@)], Head(s1.script))

\* Mutant: the setter emits on every assignment.
setUserPausedAlways(s, newVal) ==
  callEventListeners([s EXCEPT !.userPaused = newVal], "playbackchange")

setUserPaused(s, newVal) ==
  LET willChange == s.userPaused # newVal
      s1 == [s EXCEPT !.userPaused = newVal]
  IN IF willChange THEN callEventListeners(s1, "playbackchange") ELSE s1

\* Mutant: the setter emits on every assignment.
setReconciliationStateAlways(s, newVal) ==
  callEventListeners([s EXCEPT !.reconciliationState = newVal], "reconciliationstatechange")

setReconciliationState(s, newVal) ==
  LET willChange == s.reconciliationState # newVal
      s1 == [s EXCEPT !.reconciliationState = newVal]
  IN IF willChange THEN callEventListeners(s1, "reconciliationstatechange") ELSE s1

\* The statement after the loop: this.reconciliationState = IDLE.
reconcileEnd(s) == setReconciliationState(s, "IDLE")

\* Mutant: the cap branch does not force userPaused.
reconcileCapKeepsPlaying(s) == setReconciliationState(s, "FAILED")

\* The cap branch of the loop body, up to its break.
reconcileCap(s) == setReconciliationState(setUserPaused(s, TRUE), "FAILED")

\* Mutant: an ended primary is left at its end.
endedResetNever(s) == s

\* if (primary.ended) primary.currentTime = 0
endedReset(s) == IF s.primary.ended THEN mediaSeek(s, "primary", 0) ELSE s

primaryNotReady(s) == s.primary.readyState < HAVE_FUTURE_DATA

secondaryNotReady(s) ==
  secondaryLoaded(s) /\ s.secondary.readyState < HAVE_FUTURE_DATA

\* Mutant: the not-ready branch kicks both elements with play().
notReadyStepKicksAll(s) ==
  mediaPlay(mediaPlay(s, "primary", "engine"), "secondary", "engine")

\* The not-ready branch: play() the element that is ready, pause the one that
\* is not.
notReadyStep(s) ==
  LET n1 == IF ~primaryNotReady(s) THEN mediaPlay(s, "primary", "engine")
            ELSE pauseExpectedly(s, TRUE, FALSE)
  IN IF ~secondaryNotReady(s) THEN mediaPlay(n1, "secondary", "engine")
     ELSE pauseExpectedly(n1, FALSE, TRUE)

\* Mutant: the play step looks at the primary alone.
playStepAlteredPrimary(s) == s.primary.paused

playStepAltered(s) ==
  s.primary.paused \/ (secondaryLoaded(s) /\ s.secondary.paused)

\* Mutant: the play step starts the primary only.
playStepPrimaryOnly(s) ==
  IF s.primary.paused
  THEN mediaPlay([s EXCEPT !.expectingPrimaryPause = FALSE], "primary", "engine")
  ELSE s

\* The play step: every loaded element that is paused is started, its
\* expecting-pause flag cancelled.
playStep(s) ==
  LET p1 == IF s.primary.paused
            THEN mediaPlay([s EXCEPT !.expectingPrimaryPause = FALSE], "primary", "engine")
            ELSE s
  IN IF secondaryLoaded(p1) /\ p1.secondary.paused
     THEN mediaPlay([p1 EXCEPT !.expectingSecondaryPause = FALSE], "secondary", "engine")
     ELSE p1

\* Mutant: the pause branch is taken on userPaused alone.
reconcileLoopIgnoresSeeking(s, attempts) ==
  IF ~loopCondition(attempts) THEN reconcileEnd(s)
  ELSE IF capReached(attempts) THEN reconcileEnd(reconcileCap(s))
  ELSE IF s.userPaused THEN
    IF pauseExpectedlyAltered(s, TRUE, TRUE)
    THEN suspend(pauseExpectedly(s, TRUE, TRUE), attempts)
    ELSE reconcileEnd(s)
  ELSE IF ~primaryLoaded(s) THEN suspend(setUserPaused(s, TRUE), attempts)
  ELSE
    LET s1 == endedReset(s)
    IN IF syncCurrentTimeNeeded(s1) THEN suspend(syncCurrentTime(s1), attempts)
       ELSE IF primaryNotReady(s1) \/ secondaryNotReady(s1)
         THEN suspend(notReadyStep(s1), attempts)
       ELSE IF playStepAltered(s1) THEN suspend(playStep(s1), attempts)
       ELSE reconcileEnd(s1)

\* Mutant: the play step comes before the alignment of the positions.
reconcileLoopPlaysFirst(s, attempts) ==
  IF ~loopCondition(attempts) THEN reconcileEnd(s)
  ELSE IF capReached(attempts) THEN reconcileEnd(reconcileCap(s))
  ELSE IF s.userPaused \/ s.userSeeking THEN
    IF pauseExpectedlyAltered(s, TRUE, TRUE)
    THEN suspend(pauseExpectedly(s, TRUE, TRUE), attempts)
    ELSE reconcileEnd(s)
  ELSE IF ~primaryLoaded(s) THEN suspend(setUserPaused(s, TRUE), attempts)
  ELSE
    LET s1 == endedReset(s)
    IN IF primaryNotReady(s1) \/ secondaryNotReady(s1)
         THEN suspend(notReadyStep(s1), attempts)
       ELSE IF playStepAltered(s1) THEN suspend(playStep(s1), attempts)
       ELSE IF syncCurrentTimeNeeded(s1) THEN suspend(syncCurrentTime(s1), attempts)
       ELSE reconcileEnd(s1)

\* One pass through the for loop of reconcile, from its condition to the next
\* await (the loop is suspended) or to the end of reconcile.
reconcileLoop(s, attempts) ==
  IF ~loopCondition(attempts) THEN reconcileEnd(s)
  ELSE IF capReached(attempts) THEN reconcileEnd(reconcileCap(s))
  ELSE IF s.userPaused \/ s.userSeeking THEN
    IF pauseExpectedlyAltered(s, TRUE, TRUE)
    THEN suspend(pauseExpectedly(s, TRUE, TRUE), attempts)
    ELSE reconcileEnd(s)
  ELSE IF ~primaryLoaded(s) THEN suspend(setUserPaused(s, TRUE), attempts)
  ELSE
    LET s1 == endedReset(s)
    IN IF syncCurrentTimeNeeded(s1) THEN suspend(syncCurrentTime(s1), attempts)
       ELSE IF primaryNotReady(s1) \/ secondaryNotReady(s1)
         THEN suspend(notReadyStep(s1), attempts)
       ELSE IF playStepAltered(s1) THEN suspend(playStep(s1), attempts)
       ELSE reconcileEnd(s1)

reconcile(s) ==
  IF s.reconciliationState = "RUNNING" THEN s
  ELSE reconcileLoop(setReconciliationState(s, "RUNNING"), 0)

called(s, name) == [s EXCEPT !.calls = Append(@, name)]

pause(s) == reconcile(setUserPaused(called(s, "pause"), TRUE))

play(s) == reconcile(setUserPaused(called(s, "play"), FALSE))

\* Mutant: the setter writes the target whether or not a primary is loaded.
setCurrentTimeUnguarded(s, timestamp) ==
  LET s0 == called(s, "seek")
  IN reconcile([mediaSeek(s0, "primary", timestamp) EXCEPT !.commands = s0.commands])

setCurrentTime(s, timestamp) ==
  LET s0 == called(s, "seek")
  IN reconcile(IF primaryLoaded(s0)
               THEN [mediaSeek(s0, "primary", timestamp) EXCEPT !.commands = s0.commands]
               ELSE s0)

startUserSeeking(s) == reconcile([called(s, "startUserSeeking") EXCEPT !.userSeeking = TRUE])

endUserSeeking(s) == reconcile([called(s, "endUserSeeking") EXCEPT !.userSeeking = FALSE])

\* assertState(!!primary || !secondary) throws: its condition is false.
assertStateThrows(primaryUrl, secondaryUrl) == ~(primaryUrl \/ ~secondaryUrl)

\* Mutant: setSrc on both elements whatever the URLs.
setSourceUnchecked(s, primaryUrl, secondaryUrl) ==
  [s EXCEPT !.primary = EmptyMedia(primaryUrl), !.secondary = EmptyMedia(secondaryUrl),
            !.pending = {}]

\* assertState(!!primary || !secondary), then setSrc on both elements: each
\* element runs its load algorithm, which also drops the notifications the
\* element has queued.
setSource(s, primaryUrl, secondaryUrl) ==
  IF assertStateThrows(primaryUrl, secondaryUrl) THEN s
  ELSE [s EXCEPT !.primary = EmptyMedia(primaryUrl), !.secondary = EmptyMedia(secondaryUrl),
                 !.pending = {}]

(***************************************************************************)
(* The listeners the constructor attaches to the two elements.             *)
(***************************************************************************)
expectingPause(s, r) ==
  IF r = "primary" THEN s.expectingPrimaryPause ELSE s.expectingSecondaryPause

clearExpectingPause(s, r) ==
  IF r = "primary" THEN [s EXCEPT !.expectingPrimaryPause = FALSE]
  ELSE [s EXCEPT !.expectingSecondaryPause = FALSE]

onPause(s, r) == IF expectingPause(s, r) THEN clearExpectingPause(s, r) ELSE pause(s)

\* Mutant: the play listener leaves the expecting-pause flag alone.
onPlayKeepsFlag(s, r) == play(s)

onPlay(s, r) == play(clearExpectingPause(s, r))

onEnded(s) == setUserPaused(s, TRUE)

maybeEmitLoadedMetadata(s) ==
  IF \/ ~secondaryLoaded(s)
     \/ /\ s.primary.readyState >= HAVE_METADATA
        /\ s.secondary.readyState >= HAVE_METADATA
  THEN callEventListeners(s, "loadedmetadata")
  ELSE s

\* Mutant: timeupdate is forwarded whatever userSeeking is.
onTimeUpdateAlways(s) == callEventListeners(s, "timeupdate")

\* The primary's timeupdate listener.
onTimeUpdate(s) == IF ~s.userSeeking THEN callEventListeners(s, "timeupdate") ELSE s

onNotification(s, n) ==
  CASE n.kind = "pause" -> onPause(s, n.res)
    [] n.kind = "play" -> onPlay(s, n.res)
    [] n.kind = "ended" -> onEnded(s)
    [] n.kind = "loadedmetadata" -> maybeEmitLoadedMetadata(s)
    [] n.kind = "timeupdate" -> onTimeUpdate(s)

(***************************************************************************)
(* Actions: one task each.  S is the set of subscriber scripts the task    *)
(* may meet.                                                               *)
(***************************************************************************)
Init ==
  /\ userPaused = TRUE
  /\ userSeeking = FALSE
  /\ reconciliationState = "IDLE"
  /\ expectingPrimaryPause = FALSE
  /\ expectingSecondaryPause = FALSE
  /\ primary = EmptyMedia(FALSE)
  /\ secondary = EmptyMedia(FALSE)
  /\ loops = <<>>
  /\ pending = {}
  /\ eventListeners = <<>>
  /\ registered = <<>>
  /\ awaitingCaller = FALSE
  /\ phase = "free"

\* The task emitted reconciliationstatechange with the state FAILED.
emittedFailed(s) ==
  \E i \in 1..Len(s.emitted) :
    s.emitted[i].type = "reconciliationstatechange" /\ s.emitted[i].state = "FAILED"

\* The subscribers asked to play or to seek during the task.
scriptAsks(script) == \E i \in 1..Len(script) : script[i] \in {"play", "seek"}

\* The task ran to completion and left s: s becomes the state.  asks: the
\* task is itself a request to play or seek made from outside the engine.
Commit(s, script, asks) ==
  /\ s.script = <<>>
  /\ Len(s.loops) <= MaxLoops
  /\ Cardinality(s.pending) <= MaxPending
  /\ userPaused' = s.userPaused
  /\ userSeeking' = s.userSeeking
  /\ reconciliationState' = s.reconciliationState
  /\ expectingPrimaryPause' = s.expectingPrimaryPause
  /\ expectingSecondaryPause' = s.expectingSecondaryPause
  /\ primary' = s.primary
  /\ secondary' = s.secondary
  /\ loops' = s.loops
  /\ pending' = s.pending
  /\ eventListeners' = s.eventListeners
  /\ registered' = s.registered
  /\ awaitingCaller' = IF phase # "watch" THEN FALSE
                       ELSE IF emittedFailed(s) THEN ~scriptAsks(script)
                       ELSE awaitingCaller /\ ~scriptAsks(script) /\ ~asks

Play(S) ==
  \E sc \in S : Commit(play(Cur(sc)), sc, TRUE) /\ UNCHANGED phase

Pause(S) ==
  \E sc \in S : Commit(pause(Cur(sc)), sc, FALSE) /\ UNCHANGED phase

SetCurrentTime(S, T) ==
  \E sc \in S, t \in T : Commit(setCurrentTime(Cur(sc), t), sc, TRUE) /\ UNCHANGED phase

StartUserSeeking(S) ==
  \E sc \in S : Commit(startUserSeeking(Cur(sc)), sc, FALSE) /\ UNCHANGED phase

EndUserSeeking(S) ==
  \E sc \in S : Commit(endUserSeeking(Cur(sc)), sc, FALSE) /\ UNCHANGED phase

SetSource ==
  \E p \in BOOLEAN, q \in BOOLEAN :
    Commit(setSource(Cur(<<>>), p, q), <<>>, FALSE) /\ UNCHANGED phase

\* q without its i-th element.
RemoveAt(q, i) == [j \in 1..(Len(q) - 1) |-> IF j < i THEN q[j] ELSE q[j + 1]]

\* The i-th suspended loop of s resumes: its asyncTimeout(50) has elapsed.
resumeLoop(s, i) == reconcileLoop([s EXCEPT !.loops = RemoveAt(@, i)], s.loops[i])

resume(sc, i) == resumeLoop(Cur(sc), i)

Timer(S) ==
  \E i \in 1..Len(loops), sc \in S : Commit(resume(sc, i), sc, FALSE) /\ UNCHANGED phase

\* canplay, canplaythrough, stalled or waiting of either element.
ReadinessEvent(S) ==
  \E sc \in S : Commit(reconcile(Cur(sc)), sc, FALSE) /\ UNCHANGED phase

\* The queued notification n is delivered to its listener.
deliver(sc, n) == onNotification([Cur(sc) EXCEPT !.pending = @ \ {n}], n)

Deliver(S) ==
  \E n \in pending, sc \in S :
    Commit(deliver(sc, n), sc, n.kind = "play" /\ n.origin = "external") /\ UNCHANGED phase

\* A queued notification never arrives.
Drop ==
  \E n \in pending :
    Commit([Cur(<<>>) EXCEPT !.pending = @ \ {n}], <<>>, FALSE) /\ UNCHANGED phase

\* An element's readyState changes (buffering, a stall, a seek) to a value of V.
ReadyStateChange(V) ==
  \E r \in Resources, v \in V :
    /\ Media(Cur(<<>>), r).src
    /\ Media(Cur(<<>>), r).readyState # v
    /\ Commit(SetMedia(Cur(<<>>), r, [Media(Cur(<<>>), r) EXCEPT !.readyState = v]),
              <<>>, FALSE)
    /\ UNCHANGED phase

\* A media key, the system or the browser pauses or starts an element.
ExternalPause ==
  \E r \in Resources :
    /\ Media(Cur(<<>>), r).src
    /\ ~Media(Cur(<<>>), r).paused
    /\ Commit(mediaPause(Cur(<<>>), r, "external"), <<>>, FALSE)
    /\ UNCHANGED phase

ExternalPlay ==
  \E r \in Resources :
    /\ Media(Cur(<<>>), r).src
    /\ Media(Cur(<<>>), r).paused
    /\ Commit(mediaPlay(Cur(<<>>), r, "external"), <<>>, FALSE)
    /\ UNCHANGED phase

\* The engine among a caller with subscribers, external actors, and elements
\* whose readiness changes freely and whose notifications arrive late, out of
\* order or never.  Positions stay at 0.
Next ==
  \/ Play(Scripts)
  \/ Pause(Scripts)
  \/ SetCurrentTime(Scripts, {0})
  \/ StartUserSeeking(Scripts)
  \/ EndUserSeeking(Scripts)
  \/ SetSource
  \/ Timer(Scripts)
  \/ ReadinessEvent(Scripts)
  \/ Deliver(Scripts)
  \/ Drop
  \/ ReadyStateChange({0, HAVE_FUTURE_DATA})
  \/ ExternalPause
  \/ ExternalPlay

Spec == Init /\ [][Next]_vars

\* The same engine and environment with subscribers that only listen, and
\* with the history of the last failed pass kept in awaitingCaller.
InitWatch ==
  /\ userPaused = TRUE
  /\ userSeeking = FALSE
  /\ reconciliationState = "IDLE"
  /\ expectingPrimaryPause = FALSE
  /\ expectingSecondaryPause = FALSE
  /\ primary = EmptyMedia(FALSE)
  /\ secondary = EmptyMedia(FALSE)
  /\ loops = <<>>
  /\ pending = {}
  /\ eventListeners = <<>>
  /\ registered = <<>>
  /\ awaitingCaller = FALSE
  /\ phase = "watch"

NextWatch ==
  \/ Play({<<>>})
  \/ Pause({<<>>})
  \/ SetCurrentTime({<<>>}, {0})
  \/ StartUserSeeking({<<>>})
  \/ EndUserSeeking({<<>>})
  \/ SetSource
  \/ Timer({<<>>})
  \/ ReadinessEvent({<<>>})
  \/ Deliver({<<>>})
  \/ Drop
  \/ ReadyStateChange({0, HAVE_FUTURE_DATA})
  \/ ExternalPause
  \/ ExternalPlay

SpecWatch == InitWatch /\ [][NextWatch]_vars

(***************************************************************************)
(* The convergence scenario: the caller loads both sources, calls pause()  *)
(* and then play(), and may do so again once the engine rests.  The        *)
(* elements honour every command, only gain readiness, and have reached    *)
(* HAVE_FUTURE_DATA by the iteration numbered MaxTicks of the pass; their  *)
(* notifications are dispatched (or lost) before the next timer expires.   *)
(***************************************************************************)
MaxTicks == attemptCap - 1

allReady(s) ==
  /\ s.primary.readyState >= HAVE_FUTURE_DATA
  /\ s.secondary.readyState >= HAVE_FUTURE_DATA

InitConv ==
  /\ userPaused = TRUE
  /\ userSeeking = FALSE
  /\ reconciliationState = "IDLE"
  /\ expectingPrimaryPause = FALSE
  /\ expectingSecondaryPause = FALSE
  /\ primary = EmptyMedia(FALSE)
  /\ secondary = EmptyMedia(FALSE)
  /\ loops = <<>>
  /\ pending = {}
  /\ eventListeners = <<>>
  /\ registered = <<>>
  /\ awaitingCaller = FALSE
  /\ phase = "start"

ConvSetSource ==
  /\ phase = "start"
  /\ Commit(setSource(Cur(<<>>), TRUE, TRUE), <<>>, FALSE)
  /\ phase' = "loaded"

ConvPause ==
  /\ \/ phase = "loaded"
     \/ phase = "played" /\ loops = <<>> /\ pending = {}
  /\ Commit(pause(Cur(<<>>)), <<>>, FALSE)
  /\ phase' = IF phase = "loaded" THEN "pauseCalled" ELSE "pauseCalledAgain"

ConvPlay ==
  /\ phase \in {"pauseCalled", "pauseCalledAgain"}
  /\ Commit(play(Cur(<<>>)), <<>>, TRUE)
  /\ phase' = IF phase = "pauseCalled" THEN "played" ELSE "playedAgain"

\* A timer expires once the notifications queued before it are dispatched.
ConvTimer ==
  \E i \in 1..Len(loops) :
    /\ pending = {}
    /\ allReady(Cur(<<>>)) \/ loops[i] < MaxTicks
    /\ Commit(resume(<<>>, i), <<>>, FALSE)
    /\ UNCHANGED phase

\* Buffering: a loaded element's readyState rises.
ReadyUp ==
  \E r \in Resources, v \in ReadyStates :
    /\ Media(Cur(<<>>), r).src
    /\ Media(Cur(<<>>), r).readyState < v
    /\ Commit(SetMedia(Cur(<<>>), r, [Media(Cur(<<>>), r) EXCEPT !.readyState = v]),
              <<>>, FALSE)
    /\ UNCHANGED phase

NextConv ==
  \/ ConvSetSource
  \/ ConvPause
  \/ ConvPlay
  \/ ConvTimer
  \/ ReadyUp
  \/ ReadinessEvent({<<>>})
  \/ Deliver({<<>>})
  \/ Drop

\* Timers expire, queued notifications are dispatched, buffering proceeds.
SpecConv ==
  /\ InitConv /\ [][NextConv]_vars
  /\ WF_vars(ConvPlay) /\ WF_vars(ConvTimer) /\ WF_vars(Deliver({<<>>}))
  /\ WF_vars(ReadyUp)

(***************************************************************************)
(* What a task did, read from the record it leaves.                        *)
(***************************************************************************)
playbackChanges(s) ==
  Cardinality({i \in 1..Len(s.emitted) : s.emitted[i].type = "playbackchange"})

playCommanded(s) == \E c \in s.commands : c[2] = "play" /\ c[3] = "engine"

allLoadedPaused(s) ==
  /\ (s.primary.src => s.primary.paused)
  /\ (s.secondary.src => s.secondary.paused)

someLoadedNotReady(s) ==
  \/ s.primary.readyState < HAVE_FUTURE_DATA
  \/ (s.secondary.src /\ s.secondary.readyState < HAVE_FUTURE_DATA)

\* Only the timers fire until no loop is suspended (each loop ends within
\* MAX_RECONCILE_ATTEMPTS + 1 resumptions, so the bound n is never the reason
\* to stop).
RECURSIVE settle(_, _)
settle(s, n) ==
  IF s.loops = <<>> \/ n = 0 THEN s ELSE settle(resumeLoop(s, 1), n - 1)

settleBound == (MaxLoops + 1) * (attemptCap + 2)

(***************************************************************************)
(* C1.  Single-flight: whatever the caller, the elements and the           *)
(* subscribers do, at most one reconcile loop is in flight.                *)
(***************************************************************************)
C1_SingleFlight == Len(loops) <= 1

(***************************************************************************)
(* C2.  Every pass terminates within the attempt cap: the counter of a     *)
(* loop in flight never exceeds MAX_RECONCILE_ATTEMPTS (a loop suspended   *)
(* at the cap ends when it resumes), a request absorbed by a running pass  *)
(* leaves every counter as it is, and the engine is RUNNING only while a   *)
(* loop is in flight.                                                      *)
(***************************************************************************)
C2_PassBounded ==
  /\ \A i \in 1..Len(loops) : loops[i] \in 1..MAX_RECONCILE_ATTEMPTS
  /\ reconciliationState = "RUNNING" => loops # <<>>
  /\ \A sc \in Scripts :
       reconciliationState = "RUNNING" =>
         /\ reconcile(Cur(sc)).loops = loops
         /\ play(Cur(sc)).loops = loops
         /\ pause(Cur(sc)).loops = loops
         /\ setCurrentTime(Cur(sc), 0).loops = loops
  /\ \A i \in 1..Len(loops) :
       loops[i] = MAX_RECONCILE_ATTEMPTS =>
         LET r == resume(<<>>, i)
         IN r.loops = RemoveAt(loops, i) /\ r.reconciliationState # "RUNNING"

\* A pass is running with its counter at the cap, after absorbing a request.
C2_Witness ==
  /\ reconciliationState = "RUNNING"
  /\ \E i \in 1..Len(loops) : loops[i] = MAX_RECONCILE_ATTEMPTS
  /\ pending # {}

(***************************************************************************)
(* C3.  Failure bound: while the desired state is playing, a primary       *)
(* source is loaded and a loaded element is below HAVE_FUTURE_DATA, an     *)
(* iteration below the cap never ends the pass (it suspends with the       *)
(* counter one higher), and the iteration at the cap sets userPaused,      *)
(* emits playbackchange with paused = true and emits                       *)
(* reconciliationstatechange with the state FAILED.                        *)
(***************************************************************************)
C3_FailureBound ==
  \A i \in 1..Len(loops), sc \in Scripts :
    (~userPaused /\ ~userSeeking /\ primary.src /\ someLoadedNotReady(Cur(sc))) =>
      LET r == resume(sc, i)
      IN IF loops[i] < MAX_RECONCILE_ATTEMPTS
         THEN /\ r.loops = Insert(RemoveAt(loops, i), loops[i] + 1)
              /\ r.emitted = <<>>
              /\ ~r.userPaused
         ELSE /\ emittedFailed(r)
              /\ r.emitted[1] = [type |-> "playbackchange", paused |-> TRUE,
                                 state |-> reconciliationState]
              /\ (sc = <<>> => r.userPaused)

\* A playing pass with an element not ready is about to resume at the cap.
C3_Witness ==
  /\ ~userPaused /\ ~userSeeking /\ primary.src /\ someLoadedNotReady(Cur(<<>>))
  /\ \E i \in 1..Len(loops) : loops[i] = MAX_RECONCILE_ATTEMPTS
  /\ reconciliationState = "RUNNING"

(***************************************************************************)
(* C4.  FAILED is terminal: the pass that exhausts the attempt cap leaves  *)
(* the engine in the state FAILED.                                         *)
(***************************************************************************)
C4_FailedIsTerminal ==
  \A i \in 1..Len(loops) :
    loops[i] = MAX_RECONCILE_ATTEMPTS => resume(<<>>, i).reconciliationState = "FAILED"

(***************************************************************************)
(* C5.  After a pass has failed at the cap, and until the caller calls     *)
(* play() or sets currentTime, no task of the engine issues play() on an   *)
(* element: not the delivery of a notification left over from the engine's *)
(* own commands, not a timer, a readiness event, pause() or a seeking      *)
(* toggle.                                                                 *)
(***************************************************************************)
C5_NoPlayAfterFailure ==
  awaitingCaller =>
    /\ \A n \in pending :
         ~(n.kind = "play" /\ n.origin = "external") => ~playCommanded(deliver(<<>>, n))
    /\ \A i \in 1..Len(loops) : ~playCommanded(resume(<<>>, i))
    /\ ~playCommanded(reconcile(Cur(<<>>)))
    /\ ~playCommanded(pause(Cur(<<>>)))
    /\ ~playCommanded(startUserSeeking(Cur(<<>>)))
    /\ ~playCommanded(endUserSeeking(Cur(<<>>)))

(***************************************************************************)
(* C6.  Attribution of engine pauses: the pause notification of a pause()  *)
(* the engine issued itself never reaches the public pause() and never     *)
(* changes userPaused, however late it is delivered.                       *)
(***************************************************************************)
C6_EnginePauseNotPublic ==
  \A n \in pending :
    (n.kind = "pause" /\ n.origin = "engine") =>
      LET r == deliver(<<>>, n)
      IN r.calls = <<>> /\ r.userPaused = userPaused

(***************************************************************************)
(* C7.  Attribution of external pauses: a pause notification delivered     *)
(* while the element's expecting-pause flag is unset calls the public      *)
(* pause() exactly once, which leaves userPaused true.                     *)
(***************************************************************************)
C7_ExternalPausePublic ==
  \A n \in pending, sc \in Scripts :
    (n.kind = "pause" /\ ~expectingPause(Cur(sc), n.res)) =>
      LET r == deliver(sc, n)
      IN /\ r.calls[1] = "pause"
         /\ (sc = <<>> => r.calls = <<"pause">> /\ r.userPaused)

\* The pause notification of an external pause is queued for an element whose
\* flag is unset, while the controller plays.
C7_Witness ==
  /\ ~userPaused
  /\ \E n \in pending :
       n.kind = "pause" /\ n.origin = "external" /\ ~expectingPause(Cur(<<>>), n.res)

(***************************************************************************)
(* C7, second half.  With only the timers firing afterwards, the pass that *)
(* the unflagged pause notification requested leaves every loaded element  *)
(* paused.                                                                 *)
(***************************************************************************)
C7_OtherResourcePaused ==
  \A n \in pending :
    (n.kind = "pause" /\ ~expectingPause(Cur(<<>>), n.res)) =>
      LET r == settle(deliver(<<>>, n), settleBound)
      IN r.loops = <<>> /\ allLoadedPaused(r)

(***************************************************************************)
(* C8.  paused reflects only the desired intent: the notification of a     *)
(* pause() or play() the engine issued on an element never changes         *)
(* userPaused and never emits playbackchange.                              *)
(***************************************************************************)
C8_PausedIsIntent ==
  \A n \in pending :
    n.origin = "engine" =>
      LET r == deliver(<<>>, n)
      IN playbackChanges(r) = 0 /\ r.userPaused = userPaused

(***************************************************************************)
(* C10.  Idempotence: two consecutive play() calls from a paused           *)
(* controller emit exactly one playbackchange, and so do two consecutive   *)
(* pause() calls from a playing one.                                       *)
(***************************************************************************)
C10_Idempotence ==
  /\ userPaused => playbackChanges(play(play(Cur(<<>>)))) = 1
  /\ ~userPaused => playbackChanges(pause(pause(Cur(<<>>)))) = 1

setCurrentTimeThrice(s) == setCurrentTime(setCurrentTime(setCurrentTime(s, 0), 0), 0)

TaskResults ==
  UNION {
    { play(Cur(sc)), pause(Cur(sc)), setCurrentTime(Cur(sc), 0),
      setCurrentTimeThrice(Cur(sc)), startUserSeeking(Cur(sc)),
      endUserSeeking(Cur(sc)), reconcile(Cur(sc)) }
    \cup { resume(sc, i) : i \in 1..Len(loops) }
    \cup { deliver(sc, n) : n \in pending } : sc \in Scripts }

\* The engine state just before the i-th emission of the task that left r.
stateBefore(r, i) == IF i = 1 THEN reconciliationState ELSE r.emitted[i - 1].state

runningEmissions(r) ==
  Cardinality({i \in 1..Len(r.emitted) :
    r.emitted[i].type = "reconciliationstatechange" /\ r.emitted[i].state = "RUNNING"})

(***************************************************************************)
(* C11.  reconciliationstatechange is emitted only on a change of the      *)
(* engine state: in every task, three currentTime sets in a row included,  *)
(* each emission reports a state other than the one before it, so RUNNING  *)
(* is never emitted while the engine is RUNNING.                           *)
(***************************************************************************)
C11_EmittedOnChange ==
  \A r \in TaskResults : \A i \in 1..Len(r.emitted) :
    r.emitted[i].type = "reconciliationstatechange" =>
      r.emitted[i].state # stateBefore(r, i)

\* Three currentTime sets on a resting engine emit RUNNING once, and none on
\* a running one.
C11_Witness ==
  /\ primary.src /\ ~userPaused /\ reconciliationState = "IDLE"
  /\ runningEmissions(setCurrentTimeThrice(Cur(<<>>))) = 1
  /\ setCurrentTimeThrice(Cur(<<>>)).reconciliationState = "RUNNING"
  /\ runningEmissions(setCurrentTimeThrice(setCurrentTimeThrice(Cur(<<>>)))) = 1

(***************************************************************************)
(* The start-up scenario: play() on a resting engine with both sources     *)
(* loaded, the elements reaching HAVE_FUTURE_DATA just before iteration k  *)
(* of the pass (iteration 0 runs inside play()).                           *)
(***************************************************************************)
RECURSIVE ticks(_, _), dispatchAll(_)

\* n expiries of asyncTimeout(50), the oldest suspended loop first.
ticks(s, n) ==
  IF n = 0 \/ s.loops = <<>> THEN s ELSE ticks(resumeLoop(s, 1), n - 1)

\* Every queued notification reaches its listener, in any order.
dispatchAll(s) ==
  IF s.pending = {} THEN {s}
  ELSE UNION { dispatchAll(onNotification([s EXCEPT !.pending = @ \ {n}], n)) :
                 n \in s.pending }

bothReady(s) ==
  [s EXCEPT !.primary.readyState = HAVE_FUTURE_DATA,
            !.secondary.readyState = HAVE_FUTURE_DATA]

\* The scenario up to iteration k: play(), the k - 1 further iterations with
\* neither element ready, then canplay of both elements.
startUpUntil(k) ==
  IF k = 0 THEN bothReady(Cur(<<>>))
  ELSE reconcile(reconcile(bothReady(ticks(play(Cur(<<>>)), k - 1))))

\* Iteration k has run.
startUpAt(k) ==
  IF k = 0 THEN play(startUpUntil(0)) ELSE resumeLoop(startUpUntil(k), 1)

\* The play notifications are dispatched and the next iteration has run.
startUpRuns(k) == { ticks(d, 1) : d \in dispatchAll(startUpAt(k)) }

stateChanges(r) ==
  LET e == SelectSeq(r.emitted, LAMBDA x : x.type = "reconciliationstatechange")
  IN [i \in 1..Len(e) |-> e[i].state]

bothCommandedToPlay(s) ==
  \A r \in Resources : <<r, "play", "engine">> \in s.commands

\* The engine rests on two loaded, paused elements that are not ready.
startUpPossible ==
  /\ primary.src /\ secondary.src
  /\ userPaused /\ ~userSeeking /\ reconciliationState = "IDLE"
  /\ primary.paused /\ secondary.paused
  /\ loops = <<>> /\ pending = {}
  /\ primaryNotReady(Cur(<<>>))
  /\ secondaryNotReady(Cur(<<>>))

startUpAsClaimed(k) ==
  /\ ~playCommanded(startUpUntil(k))
  /\ bothCommandedToPlay(startUpAt(k))
  /\ \A r \in startUpRuns(k) :
       /\ playbackChanges(r) = 1
       /\ stateChanges(r) = <<"RUNNING", "IDLE">>
       /\ r.loops = <<>>

(***************************************************************************)
(* C12.  Start-up: after setSource with both URLs and play(), if both      *)
(* elements first reach HAVE_FUTURE_DATA at iteration k, at least two      *)
(* below the attempt cap, and the play notifications are dispatched before *)
(* the next iteration, then no play() is commanded before iteration k,     *)
(* both elements are commanded to play at iteration k, one playbackchange  *)
(* is emitted and the reconciliationstatechange sequence is RUNNING, IDLE. *)
(***************************************************************************)
C12_StartUp ==
  startUpPossible => \A k \in 0..(attemptCap - 2) : startUpAsClaimed(k)

\* Readiness at iteration 3 after two sources were set: both are commanded
\* to play there and the pass ends RUNNING, IDLE.
C12_Witness ==
  /\ phase = "loaded" /\ startUpPossible
  /\ ~playCommanded(startUpUntil(3))
  /\ Len(startUpUntil(3).loops) = 1 /\ startUpUntil(3).loops[1] = 3
  /\ bothCommandedToPlay(startUpAt(3))
  /\ \E r \in startUpRuns(3) :
       /\ stateChanges(r) = <<"RUNNING", "IDLE">>
       /\ ~r.primary.paused /\ ~r.secondary.paused /\ ~r.userPaused

\* C12 as stated, for every iteration k a pass has.
C12_StartUpAnyTick ==
  startUpPossible => \A k \in 0..attemptCap : startUpAsClaimed(k)

(***************************************************************************)
(* C13.  setSource with a secondary URL and no primary URL throws before   *)
(* it touches anything: both elements, the desired state, the engine       *)
(* state, the suspended loops and the queued notifications are as before.  *)
(***************************************************************************)
C13_InvalidSourcesRejected ==
  /\ assertStateThrows(FALSE, TRUE)
  /\ setSource(Cur(<<>>), FALSE, TRUE) = Cur(<<>>)

\* The rejected call finds two playing elements and a running pass.
C13_Witness ==
  /\ primary.src /\ secondary.src /\ ~primary.paused /\ ~secondary.paused
  /\ ~userPaused /\ reconciliationState = "RUNNING" /\ loops # <<>>
  /\ setSource(Cur(<<>>), FALSE, TRUE) = Cur(<<>>)
  /\ setSource(Cur(<<>>), TRUE, TRUE) # Cur(<<>>)

(***************************************************************************)
(* C14.  Autoplay on a later load: play() called while no primary source   *)
(* is loaded leaves the desired state playing (paused is false) once the   *)
(* call returns.                                                           *)
(***************************************************************************)
C14_PlayIntentKept ==
  ~primaryLoaded(Cur(<<>>)) => ~play(Cur(<<>>)).userPaused

\* The iterations of a pass that can run in the current state: the inline
\* first one of a pass started by a readiness event, and those of the
\* suspended loops.
PassResults ==
  UNION { {reconcile(Cur(sc))} \cup { resume(sc, i) : i \in 1..Len(loops) } :
          sc \in {<<>>} }

(***************************************************************************)
(* C15.  While the secondary has no source, no iteration of a pass issues  *)
(* play(), pause() or a position write to the secondary.                   *)
(***************************************************************************)
C15_SecondarySkipped ==
  ~secondaryLoaded(Cur(<<>>)) =>
    \A r \in PassResults : \A c \in r.commands : c[1] # "secondary"

(***************************************************************************)
(* The engine on two loaded elements whose positions move: playback        *)
(* advances them, the caller seeks, the primary reaches its end.           *)
(***************************************************************************)
InitDrift ==
  /\ userPaused = TRUE
  /\ userSeeking = FALSE
  /\ reconciliationState = "IDLE"
  /\ expectingPrimaryPause = FALSE
  /\ expectingSecondaryPause = FALSE
  /\ primary = [EmptyMedia(TRUE) EXCEPT !.readyState = HAVE_FUTURE_DATA]
  /\ secondary \in { [EmptyMedia(u) EXCEPT !.readyState = HAVE_FUTURE_DATA] : u \in BOOLEAN }
  /\ loops = <<>>
  /\ pending = {}
  /\ eventListeners = <<>>
  /\ registered = <<>>
  /\ awaitingCaller = FALSE
  /\ phase = "drift"

\* An element's position changes: playback, buffering, a seek of its own.
PositionChange ==
  \E r \in Resources, t \in TimeValues :
    /\ Media(Cur(<<>>), r).src
    /\ Media(Cur(<<>>), r).currentTime # t
    /\ Commit(SetMedia(Cur(<<>>), r, [Media(Cur(<<>>), r) EXCEPT !.currentTime = t]),
              <<>>, FALSE)
    /\ UNCHANGED phase

\* The primary plays to its end.
PrimaryEnds ==
  /\ ~primary.paused /\ ~primary.ended
  /\ Commit([Cur(<<>>) EXCEPT !.primary.ended = TRUE, !.primary.paused = TRUE,
                              !.pending = @ \cup {Notification("primary", "ended", "external")}],
            <<>>, FALSE)
  /\ UNCHANGED phase

NextDrift ==
  \/ Play({<<>>})
  \/ Pause({<<>>})
  \/ SetCurrentTime({<<>>}, TimeValues)
  \/ Timer({<<>>})
  \/ Deliver({<<>>})
  \/ StartUserSeeking({<<>>})
  \/ EndUserSeeking({<<>>})
  \/ SetSource
  \/ ReadyStateChange({0, HAVE_FUTURE_DATA})
  \/ PositionChange
  \/ PrimaryEnds

SpecDrift == InitDrift /\ [][NextDrift]_vars

\* The tasks that run an iteration of a pass in the current state.
DriftTasks ==
  PassResults
    \cup { play(Cur(<<>>)), pause(Cur(<<>>)) }
    \cup { setCurrentTime(Cur(<<>>), t) : t \in TimeValues }
    \cup { deliver(<<>>, n) : n \in pending }

positionWritten(r) == <<"secondary", "seek", "engine">> \in r.commands

(***************************************************************************)
(* C16.  Drift tolerance: a task writes the secondary's position, setting  *)
(* it to the primary's, only when the two positions differ by strictly     *)
(* more than 0.05 s in the iteration it runs; otherwise the secondary's    *)
(* position is left as it was.                                             *)
(***************************************************************************)
C16_DriftTolerance ==
  \A r \in DriftTasks :
    /\ positionWritten(r) =>
         /\ Abs(r.primary.currentTime - secondary.currentTime) > DriftTolerance
         /\ r.secondary.currentTime = r.primary.currentTime
    /\ ~positionWritten(r) => r.secondary.currentTime = secondary.currentTime

\* A suspended loop meets a drift of 0.06 s and writes the secondary's
\* position, while a seek that leaves a drift of exactly 0.05 s writes nothing.
C16_Witness ==
  /\ secondary.src /\ ~userPaused /\ loops # <<>>
  /\ Abs(primary.currentTime - secondary.currentTime) = DriftTolerance + 1
  /\ positionWritten(resume(<<>>, 1))
  /\ resume(<<>>, 1).secondary.currentTime = primary.currentTime
  /\ \E t \in TimeValues :
       /\ Abs(t - secondary.currentTime) = DriftTolerance
       /\ ~positionWritten(setCurrentTime(Cur(<<>>), t))

(***************************************************************************)
(* C17.  Seeking is not a pause: startUserSeeking() and endUserSeeking()   *)
(* leave userPaused as it is and emit no playbackchange, and so does the   *)
(* notification of a pause() or play() the engine issued that arrives      *)
(* while the user seeks.                                                   *)
(***************************************************************************)
C17_SeekingKeepsPaused ==
  /\ \A r \in {startUserSeeking(Cur(<<>>)), endUserSeeking(Cur(<<>>))} :
       playbackChanges(r) = 0 /\ r.userPaused = userPaused
  /\ userSeeking =>
       \A n \in pending :
         n.origin = "engine" =>
           playbackChanges(deliver(<<>>, n)) = 0 /\ deliver(<<>>, n).userPaused = userPaused

\* The task requested a pass: the request met a running pass, or it started
\* one, and then the desired state was playing.
passRequested(r) ==
  /\ r.calls = <<"play">>
  /\ \/ reconciliationState = "RUNNING"
     \/ \E i \in 1..Len(r.emitted) :
          /\ r.emitted[i] = [type |-> "reconciliationstatechange", paused |-> FALSE,
                             state |-> "RUNNING"]
          /\ \A j \in 1..(i - 1) : r.emitted[j].type = "playbackchange"

playingEmissions(r) ==
  Cardinality({i \in 1..Len(r.emitted) :
    r.emitted[i].type = "playbackchange" /\ ~r.emitted[i].paused})

duringDispatch == setUserPaused(Cur(<<>>), ~userPaused)

(***************************************************************************)
(* C19.  Re-entrant-safe dispatch: a play(), pause() or currentTime set    *)
(* made by a subscriber from inside its handler runs no loop iteration     *)
(* before it returns: it commands neither element and suspends no loop.    *)
(***************************************************************************)
C19_NoInlineIteration ==
  \A op \in {"play", "pause", "seek"} :
    /\ subscriberCall(duringDispatch, op).commands = {}
    /\ subscriberCall(duringDispatch, op).loops = loops

(***************************************************************************)
(* The engine with handlers registered by once("playbackchange", handler): *)
(* a handler only listens, or calls pause() when it runs.                  *)
(***************************************************************************)
HandlerOps == {"none", "pause"}

once(s, handler) ==
  [s EXCEPT !.registered = Append(@, [handler |-> handler, invoked |-> 0,
                                      cancelled |-> FALSE]),
            !.eventListeners = Append(@, Len(s.registered) + 1)]

InitOnce ==
  /\ userPaused = TRUE
  /\ userSeeking = FALSE
  /\ reconciliationState = "IDLE"
  /\ expectingPrimaryPause = FALSE
  /\ expectingSecondaryPause = FALSE
  /\ primary = EmptyMedia(FALSE)
  /\ secondary = EmptyMedia(FALSE)
  /\ loops = <<>>
  /\ pending = {}
  /\ eventListeners = <<>>
  /\ registered = <<>>
  /\ awaitingCaller = FALSE
  /\ phase = "once"

Once(H) ==
  \E h \in H :
    /\ Len(registered) < MaxListeners
    /\ Commit(once(Cur(<<>>), h), <<>>, FALSE)
    /\ UNCHANGED phase

\* The caller calls the function once returned for registration i.
Remove ==
  \E i \in 1..Len(registered) :
    /\ Commit([remove(Cur(<<>>), i) EXCEPT
                 !.registered[i].cancelled = @ \/ registered[i].invoked = 0],
              <<>>, FALSE)
    /\ UNCHANGED phase

NextOnce ==
  \/ Once(HandlerOps)
  \/ Remove
  \/ Play({<<>>})
  \/ Pause({<<>>})
  \/ SetSource
  \/ Timer({<<>>})
  \/ Deliver({<<>>})
  \/ ReadyStateChange({HAVE_FUTURE_DATA})

SpecOnce == InitOnce /\ [][NextOnce]_vars

(***************************************************************************)
(* C20.  A handler registered with once is invoked at most once, also when *)
(* it causes playbackchange to be published again while it runs, and never *)
(* if the function once returned was called before the first delivery.     *)
(***************************************************************************)
C20_OnceAtMostOnce ==
  \A i \in 1..Len(registered) :
    /\ registered[i].invoked <= 1
    /\ registered[i].cancelled => registered[i].invoked = 0

(***************************************************************************)
(* The engine with the elements' loadedmetadata and timeupdate             *)
(* notifications: an element that has its metadata, or whose position      *)
(* moved, queues the notification, which is delivered later.               *)
(***************************************************************************)
InitEvents ==
  /\ userPaused = TRUE
  /\ userSeeking = FALSE
  /\ reconciliationState = "IDLE"
  /\ expectingPrimaryPause = FALSE
  /\ expectingSecondaryPause = FALSE
  /\ primary = EmptyMedia(FALSE)
  /\ secondary = EmptyMedia(FALSE)
  /\ loops = <<>>
  /\ pending = {}
  /\ eventListeners = <<>>
  /\ registered = <<>>
  /\ awaitingCaller = FALSE
  /\ phase = "events"

\* A loaded element gets its metadata: readyState leaves HAVE_NOTHING and
\* the element queues loadedmetadata.
MetadataLoaded ==
  \E r \in Resources :
    /\ Media(Cur(<<>>), r).src
    /\ Media(Cur(<<>>), r).readyState < HAVE_METADATA
    /\ Commit([SetMedia(Cur(<<>>), r, [Media(Cur(<<>>), r) EXCEPT !.readyState = HAVE_METADATA])
                 EXCEPT !.pending = @ \cup {Notification(r, "loadedmetadata", "external")}],
              <<>>, FALSE)
    /\ UNCHANGED phase

\* The primary's position moved: it queues timeupdate.
TimeUpdate ==
  /\ primary.src
  /\ Commit([Cur(<<>>) EXCEPT !.pending = @ \cup {Notification("primary", "timeupdate", "external")}],
            <<>>, FALSE)
  /\ UNCHANGED phase

NextEvents ==
  \/ SetSource
  \/ MetadataLoaded
  \/ TimeUpdate
  \/ Deliver(Scripts)
  \/ StartUserSeeking({<<>>})
  \/ EndUserSeeking({<<>>})
  \/ Play({<<>>})
  \/ Timer({<<>>})

SpecEvents == InitEvents /\ [][NextEvents]_vars

emissionsOf(r, type) ==
  Cardinality({i \in 1..Len(r.emitted) : r.emitted[i].type = type})

\* The queued loadedmetadata notifications, and the state with only them
\* queued.
metadataNotifications == {n \in pending : n.kind = "loadedmetadata"}

metadataQueued == [Cur(<<>>) EXCEPT !.pending = metadataNotifications]

metadataReady(s) ==
  /\ s.primary.readyState >= HAVE_METADATA
  /\ secondaryLoaded(s) => s.secondary.readyState >= HAVE_METADATA

(***************************************************************************)
(* C21.  loadedmetadata is emitted exactly once for a load: once the       *)
(* notifications of all loaded elements are delivered, in any order, and   *)
(* not when a notification is delivered while a loaded element has no      *)
(* metadata yet.                                                           *)
(***************************************************************************)
C21_LoadedMetadataOnce ==
  /\ ( /\ primary.src /\ metadataReady(Cur(<<>>))
       /\ metadataNotifications =
            {Notification(r, "loadedmetadata", "external") :
               r \in {x \in Resources : Media(Cur(<<>>), x).src}} )
     => \A r \in dispatchAll(metadataQueued) : emissionsOf(r, "loadedmetadata") = 1
  /\ ( primary.src /\ ~metadataReady(Cur(<<>>)) )
     => \A n \in metadataNotifications :
          emissionsOf(deliver(<<>>, n), "loadedmetadata") = 0

(***************************************************************************)
(* C22.  timeupdate is never emitted while userSeeking is true, and every  *)
(* timeupdate notification of the primary delivered while userSeeking is   *)
(* false is forwarded, once.                                               *)
(***************************************************************************)
C22_TimeUpdateGated ==
  \A n \in pending, sc \in Scripts :
    /\ userSeeking => emissionsOf(deliver(sc, n), "timeupdate") = 0
    /\ (~userSeeking /\ n.kind = "timeupdate") =>
         emissionsOf(deliver(sc, n), "timeupdate") = 1

\* A timeupdate notification is queued during a seek: delivered now it is
\* suppressed, delivered after endUserSeeking() it is forwarded.
C22_Witness ==
  \E n \in pending :
    /\ n.kind = "timeupdate" /\ userSeeking
    /\ emissionsOf(deliver(<<>>, n), "timeupdate") = 0
    /\ emissionsOf(onNotification(endUserSeeking(Cur(<<>>)), n), "timeupdate") = 1

\* The current state has a loaded element below HAVE_FUTURE_DATA while the
\* caller wants playback and does not seek.
notReadyWhilePlaying ==
  /\ ~userPaused /\ ~userSeeking /\ primaryLoaded(Cur(<<>>))
  /\ primaryNotReady(Cur(<<>>)) \/ secondaryNotReady(Cur(<<>>))

(***************************************************************************)
(* C23.  Not-ready handling: an iteration that finds the desired state     *)
(* playing and a loaded element below HAVE_FUTURE_DATA issues no play()    *)
(* to either element and leaves every loaded element paused.               *)
(***************************************************************************)
C23_NotReadyPauses ==
  notReadyWhilePlaying =>
    \A r \in PassResults : ~playCommanded(r) /\ allLoadedPaused(r)

\* The loop iterations short of the attempt cap that can run in the current
\* state: the inline one of a new pass, and those of the suspended loops.
IterationResults ==
  (IF reconciliationState # "RUNNING" THEN {reconcile(Cur(<<>>))} ELSE {})
    \cup { resume(<<>>, i) : i \in {j \in 1..Len(loops) : loops[j] < attemptCap} }

\* The secondary's drift as the iteration sees it, after the ended step.
driftExceeds == syncCurrentTimeNeeded(endedReset(Cur(<<>>)))

onlySnaps(r) ==
  /\ positionWritten(r)
  /\ \A c \in r.commands : c[2] = "seek"
  /\ r.secondary.currentTime = r.primary.currentTime

(***************************************************************************)
(* C24.  Time alignment comes first: an iteration that finds the desired   *)
(* state playing, no seek of the user in progress, a loaded primary and    *)
(* the secondary's drift beyond the tolerance only snaps the secondary to  *)
(* the primary's position and issues no play() or pause(); play() is       *)
(* issued only in an iteration where the drift is within the tolerance.    *)
(***************************************************************************)
C24_AlignmentFirst ==
  \A r \in IterationResults :
    /\ (~userPaused /\ ~userSeeking /\ primaryLoaded(Cur(<<>>)) /\ driftExceeds)
         => onlySnaps(r)
    /\ playCommanded(r) => ~driftExceeds

\* A suspended loop finds playing elements 0.06 s apart and only snaps.
C24_Witness ==
  /\ ~userPaused /\ ~userSeeking /\ driftExceeds
  /\ ~primary.paused /\ ~secondary.paused
  /\ loops # <<>> /\ loops[1] < attemptCap
  /\ onlySnaps(resume(<<>>, 1))
  /\ resume(<<>>, 1).loops # <<>>

\* C24 as stated: whenever the desired state is playing, seeking or not.
C24_AlignmentFirstWhenPlaying ==
  \A r \in IterationResults :
    (~userPaused /\ primaryLoaded(Cur(<<>>)) /\ driftExceeds) => onlySnaps(r)

\* The loaded elements that are not paused.
notPaused == {x \in Resources : Media(Cur(<<>>), x).src /\ ~Media(Cur(<<>>), x).paused}

\* r is what an iteration of a pause pass leaves: pause() went to the
\* elements of notPaused and to no other, their flags are set, and the pass
\* ended exactly if there was none.  before: the loops suspended before it.
pausedExactly(r, before) ==
  /\ r.commands = {<<x, "pause", "engine">> : x \in notPaused}
  /\ \A x \in notPaused : expectingPause(r, x)
  /\ allLoadedPaused(r)
  /\ (Len(r.loops) = before) <=> (notPaused = {})
  /\ (Len(r.loops) = before) => r.reconciliationState = "IDLE"

(***************************************************************************)
(* C25.  Pause pass: while the desired state is paused or the user seeks,  *)
(* every iteration issues pause() to exactly the loaded elements that are  *)
(* not paused, setting their expecting-pause flags, and the pass ends in   *)
(* the first iteration that finds none, with every loaded element paused.  *)
(***************************************************************************)
C25_PausePass ==
  (userPaused \/ userSeeking) =>
    /\ reconciliationState # "RUNNING" => pausedExactly(reconcile(Cur(<<>>)), Len(loops))
    /\ \A i \in 1..Len(loops) : pausedExactly(resume(<<>>, i), Len(loops) - 1)

\* The tasks that can command play() in the current state without a seek of
\* the caller: play(), a loop iteration, a delivered notification.
PlayingTasks ==
  IterationResults \cup {play(Cur(<<>>))} \cup {deliver(<<>>, n) : n \in pending}

aligned(r) ==
  secondaryLoaded(r) => Abs(r.primary.currentTime - r.secondary.currentTime) <= DriftTolerance

(***************************************************************************)
(* C26.  The primary's ended notification leaves userPaused true.  A task  *)
(* that commands play() while the primary reports ended has first reset    *)
(* the primary's position to 0, and the secondary is then within the       *)
(* tolerance of the primary's new position.                                *)
(***************************************************************************)
C26_RestartAfterEnded ==
  /\ \A n \in pending : n.kind = "ended" => deliver(<<>>, n).userPaused
  /\ \A r \in PlayingTasks :
       playCommanded(r) =>
         /\ ~r.primary.ended
         /\ primary.ended =>
              /\ <<"primary", "seek", "engine">> \in r.commands
              /\ r.primary.currentTime = 0
         /\ aligned(r)

\* The primary has ended away from 0 and its notification has paused the
\* controller: play() resets the primary and snaps the secondary, and the
\* next iteration starts both from 0.
C26_Witness ==
  /\ primary.ended /\ primary.currentTime # 0 /\ userPaused /\ ~userSeeking
  /\ secondary.src /\ secondary.currentTime = primary.currentTime
  /\ reconciliationState = "IDLE" /\ loops = <<>>
  /\ allReady(Cur(<<>>))
  /\ play(Cur(<<>>)).primary.currentTime = 0
  /\ positionWritten(play(Cur(<<>>)))
  /\ ~playCommanded(play(Cur(<<>>)))
  /\ bothCommandedToPlay(ticks(play(Cur(<<>>)), 1))
  /\ ticks(play(Cur(<<>>)), 1).secondary.currentTime = 0

\* A whole pass on a primary that never becomes ready: play(), then every
\* expiry of the loop's timer up to the attempt cap.
stalledPass == ticks(play(Cur(<<>>)), attemptCap)

(***************************************************************************)
(* C27.  Stall recovery: a pass whose primary stays below                  *)
(* HAVE_FUTURE_DATA in all its iterations issues a reload (load) command   *)
(* to the primary before it gives up.                                      *)
(***************************************************************************)
C27_StallReload ==
  ( /\ primaryLoaded(Cur(<<>>)) /\ primaryNotReady(Cur(<<>>))
    /\ ~userSeeking /\ reconciliationState = "IDLE" /\ loops = <<>> )
  => <<"primary", "load", "engine">> \in stalledPass.commands

\* The tasks of the current state other than the currentTime setter.
NonSeekTasks ==
  PassResults
    \cup { play(Cur(<<>>)), pause(Cur(<<>>)),
           startUserSeeking(Cur(<<>>)), endUserSeeking(Cur(<<>>)) }
    \cup { deliver(<<>>, n) : n \in pending }

\* A source is loaded after the task result r, play() is called and the
\* loop's timer expires MAX_RECONCILE_ATTEMPTS times.
loadedAfterwards(r, secondaryUrl) ==
  ticks(play(setSource(r, TRUE, secondaryUrl)), MAX_RECONCILE_ATTEMPTS)

(***************************************************************************)
(* C28.  A seek target is applied to the primary at most once, by the      *)
(* currentTime setter itself: no other task writes the primary's position  *)
(* (but for the reset to 0 of an ended primary), and a target set while no *)
(* primary is loaded changes nothing, nor the position of a source loaded  *)
(* afterwards.                                                             *)
(***************************************************************************)
C28_SeekTargetOnce ==
  /\ \A r \in NonSeekTasks :
       \/ r.primary.currentTime = primary.currentTime
       \/ primary.ended /\ r.primary.currentTime = 0
  /\ \A t \in TimeValues :
       LET r == setCurrentTime(Cur(<<>>), t)
       IN /\ primary.src => r.primary.currentTime = t
          /\ ~primary.src =>
               /\ r.primary = primary
               /\ \A u \in BOOLEAN : loadedAfterwards(r, u).primary.currentTime = 0

C28_Witness ==
  /\ ~primary.src /\ reconciliationState = "IDLE" /\ loops = <<>>
  /\ LET r == setCurrentTime(Cur(<<>>), DriftTolerance + 1)
     IN /\ r.calls = <<"seek">>
        /\ r.reconciliationState = "IDLE"
        /\ loadedAfterwards(r, TRUE).primary.src
        /\ loadedAfterwards(r, TRUE).primary.currentTime = 0

(***************************************************************************)
(* C29.  A loop iteration issues play() to an element only when userPaused *)
(* and userSeeking are false and a primary source is loaded; the methods   *)
(* that set one of the flags before their inline iteration obey the same   *)
(* rule on the flags they leave.                                           *)
(***************************************************************************)
C29_PlayOnlyWhenDesired ==
  /\ \A r \in PassResults :
       playCommanded(r) => ~userPaused /\ ~userSeeking /\ primaryLoaded(Cur(<<>>))
  /\ playCommanded(play(Cur(<<>>))) => ~userSeeking /\ primaryLoaded(Cur(<<>>))
  /\ playCommanded(endUserSeeking(Cur(<<>>))) => ~userPaused /\ primaryLoaded(Cur(<<>>))
  /\ \A t \in TimeValues :
       playCommanded(setCurrentTime(Cur(<<>>), t)) =>
         ~userPaused /\ ~userSeeking /\ primaryLoaded(Cur(<<>>))
  /\ ~playCommanded(pause(Cur(<<>>)))
  /\ ~playCommanded(startUserSeeking(Cur(<<>>)))

C29_Witness ==
  /\ ~userPaused /\ ~userSeeking /\ primaryLoaded(Cur(<<>>))
  /\ Len(loops) = 1
  /\ primary.paused
  /\ <<"primary", "play", "engine">> \in resume(<<>>, 1).commands

\* The iterations of the current state in which a pass ends: the loop leaves
\* no timer behind.
EndingIterations ==
  (IF reconciliationState # "RUNNING"
   THEN {r \in {reconcile(Cur(<<>>))} : Len(r.loops) = Len(loops)} ELSE {})
    \cup {r \in {resume(<<>>, i) : i \in 1..Len(loops)} : Len(r.loops) = Len(loops) - 1}

bothPlaying(r) ==
  /\ ~r.primary.paused
  /\ r.primary.readyState >= HAVE_FUTURE_DATA
  /\ secondaryLoaded(r) =>
       ~r.secondary.paused /\ r.secondary.readyState >= HAVE_FUTURE_DATA
  /\ aligned(r)

(***************************************************************************)
(* C30.  In the iteration where a pass ends with userPaused false and      *)
(* userSeeking false, the primary is not paused, a loaded secondary is not *)
(* paused, both have readiness at least HAVE_FUTURE_DATA and the positions *)
(* differ by at most 0.05 s.                                               *)
(***************************************************************************)
C30_PlayingPostCondition ==
  \A r \in EndingIterations : (~r.userPaused /\ ~r.userSeeking) => bothPlaying(r)

C30_Witness ==
  /\ ~userPaused /\ ~userSeeking /\ secondary.src
  /\ Len(loops) = 1 /\ loops[1] < MAX_RECONCILE_ATTEMPTS
  /\ resume(<<>>, 1) \in EndingIterations
  /\ ~resume(<<>>, 1).userPaused
  /\ bothPlaying(resume(<<>>, 1))

\* C30 as stated: the pass ends with the desired state playing (userPaused
\* false), whatever userSeeking is.
C30_PlayingPostConditionAnySeeking ==
  \A r \in EndingIterations : ~r.userPaused => bothPlaying(r)

\* No pass is in flight and no notification waits for its listener.
atRest == reconciliationState # "RUNNING" /\ loops = <<>> /\ pending = {}

loadedPlaying(r) == Media(Cur(<<>>), r).src /\ ~Media(Cur(<<>>), r).paused

(***************************************************************************)
(* C31.  Whenever no pass is in flight, no notification is pending and     *)
(* paused is true, no loaded resource is playing.                          *)
(***************************************************************************)
C31_PausedAtRest ==
  (atRest /\ userPaused) => \A r \in Resources : ~loadedPlaying(r)

\* The listener of notification n runs on the controller s.
dispatch(s, n) == onNotification([s EXCEPT !.pending = @ \ {n}], n)

(***************************************************************************)
(* C32.  The caller's pause() is stable against the engine's own commands: *)
(* the play notification of a play() that the engine issued before the     *)
(* pause() call, delivered after it, leaves paused true.                   *)
(***************************************************************************)
C32_PauseStable ==
  \A n \in pending :
    (n.kind = "play" /\ n.origin = "engine") =>
      dispatch(pause(Cur(<<>>)), n).userPaused

\* The controller r rests although it is asked to play and could: no pass is
\* in flight, paused is false, nobody seeks, the loaded elements are ready and
\* the primary is paused.
restsUnplayed(r) ==
  /\ r.reconciliationState # "RUNNING" /\ r.loops = <<>>
  /\ ~r.userPaused /\ ~r.userSeeking
  /\ primaryLoaded(r) /\ ~primaryNotReady(r) /\ ~secondaryNotReady(r)
  /\ r.primary.paused

(***************************************************************************)
(* C33.  No lost request: no task that runs while a pass is in flight, its *)
(* subscribers' calls during the dispatches included, leaves the engine    *)
(* not RUNNING with paused false, not seeking, the loaded elements ready   *)
(* and the primary paused.                                                 *)
(***************************************************************************)
C33_NoLostRequest ==
  reconciliationState = "RUNNING" => \A r \in TaskResults : ~restsUnplayed(r)

(***************************************************************************)
(* C34.  An externally caused pause is never consumed as if the engine had *)
(* issued it: the pause notification of an external pause leaves paused    *)
(* true, whatever the element's expecting-pause flag is at delivery.       *)
(***************************************************************************)
C34_ExternalPauseNeverConsumed ==
  \A n \in pending :
    (n.kind = "pause" /\ n.origin = "external") => deliver(<<>>, n).userPaused

\* The playbackchange emissions of the task that left r, in order.
playbackEmissions(r) == SelectSeq(r.emitted, LAMBDA e : e.type = "playbackchange")

\* The value of paused after k flips from the current one.
pausedAfter(k) == IF k % 2 = 0 THEN userPaused ELSE ~userPaused

(***************************************************************************)
(* C35.  playbackchange is emitted exactly when userPaused flips, on every *)
(* path that writes it: in every task, subscribers' nested calls included, *)
(* the values of paused at the successive emissions alternate, starting    *)
(* from the negation of the value before the task, and the value the task  *)
(* leaves is the one after as many flips as there are emissions.           *)
(***************************************************************************)
C35_PlaybackChangeOnFlip ==
  \A r \in TaskResults :
    /\ \A i \in 1..Len(playbackEmissions(r)) :
         playbackEmissions(r)[i].paused = pausedAfter(i)
    /\ r.userPaused = pausedAfter(Len(playbackEmissions(r)))

\* play() with no primary source writes userPaused twice (the call, then the
\* no-primary-source step); pause() on a paused controller writes the value it
\* has.
C35_Witness ==
  /\ userPaused /\ ~primary.src /\ reconciliationState = "IDLE"
  /\ Len(playbackEmissions(play(Cur(<<>>)))) = 2
  /\ play(Cur(<<>>)).userPaused
  /\ playbackEmissions(pause(Cur(<<>>))) = <<>>

=============================================================================
